---- MODULE Spec2Model ----
(***************************************************************************)
(* Model of src/main.py: a Telegram bot that sells a car insurance policy. *)
(* A ConversationHandler drives one conversation per user through six      *)
(* states; user_data_storage keeps the photos and the extracted fields.    *)
(*                                                                         *)
(* Texts are sequences of one-character strings.  The bot's Ukrainian      *)
(* words are written with one Latin letter per Cyrillic letter (a          *)
(* one-to-one map, so equality, containment, strip() and lower() behave as *)
(* on the original words):                                                 *)
(*   t a k z g o d e n b r i c m u j s v y w q l p h x  stand for          *)
(*   т а к з г о д е н б р і ч м у ж ш в я ю щ л п и с                      *)
(* and T N D X for the capitals Т Н Д С.                                   *)
(*                                                                         *)
(* The Application handles updates one at a time (concurrent_updates is    *)
(* off by default) and every collaborator call inside a handler is a       *)
(* blocking call, so one handled update is one atomic step.                *)
(* Every user talks to the bot in one private chat, so the conversation    *)
(* key (chat, user) and the storage key (user) name the same party.        *)
(***************************************************************************)
EXTENDS Integers, Sequences, FiniteSets, TLC

VARIABLES
    conv,               \* user -> state of the ConversationHandler (END: no conversation)
    user_data_storage,  \* the dict user_data_storage: user id -> session
    update,             \* the update handled by the last step
    prev,               \* state of update.user's conversation before that step
    sent,               \* messages sent to update.user by that step, in order
    calls,              \* collaborator calls of that step and how they ended
    extracted,          \* user -> value last returned by extract_passport_data
    car_data,           \* user -> value last returned by extract_vehicle_data
    happy,              \* user -> progress along /start, photo, photo, "tak", "tak"
    again,              \* user -> progress of a resubmission after an issued policy
    trail,              \* user -> the steps taken since the conversation entered ASK_PASSPORT
    loop,               \* the update whose handler holds the event loop in a collaborator call
    taken               \* the number of updates the event loop has taken under SpecUsers

vars == <<conv, user_data_storage, update, prev, sent, calls,
          extracted, car_data, happy, again, trail, loop, taken>>

Users == {"u1", "u2"}

(* ---- states (range(6)) and ConversationHandler.END -------------------- *)
ASK_PASSPORT == 0
ASK_CAR_DOC == 1
CONFIRM_DATA == 2
PRICE_CONFIRM == 3
PRICE_RECONFIRM == 4
AFTER_POLICY == 5
END == -1

States == {ASK_PASSPORT, ASK_CAR_DOC, CONFIRM_DATA, PRICE_CONFIRM,
           PRICE_RECONFIRM, AFTER_POLICY}

(* ---- bounds ----------------------------------------------------------- *)
\* Number of distinct temporary file names; a user holds at most two.
NumPaths == 5
Paths == 1..NumPaths

(* ---- texts ------------------------------------------------------------ *)
tak == <<"t", "a", "k">>
Tak == <<"T", "a", "k">>
tak_sp == <<"t", "a", "k", " ">>
ok == <<"o", "k">>
zgoden == <<"z", "g", "o", "d", "e", "n">>
dobre == <<"d", "o", "b", "r", "e">>
ni == <<"n", "i">>
Ni == <<"N", "i">>
ne_zgoden == <<"n", "e", " ", "z", "g", "o", "d", "e", "n">>
nit == <<"n", "i", "t">>
comu == <<"c", "o", "m", "u">>
comu_dorogo == <<"c", "o", "m", "u", " ", "d", "o", "r", "o", "g", "o">>
mojna == <<"m", "o", "j", "n", "a">>
desev == <<"d", "e", "s", "e", "v">>
mojna_desevse == <<"m", "o", "j", "n", "a", " ", "d", "e", "s", "e", "v", "s", "e">>
naviqo == <<"n", "a", "v", "i", "q", "o">>
dly_cogo == <<"d", "l", "y", " ", "c", "o", "g", "o">>
a_ykqo == <<"a", " ", "y", "k", "q", "o">>
ci_potribno == <<"c", "h", " ", "p", "o", "t", "r", "i", "b", "n", "o">>
dykuw == <<"d", "y", "k", "u", "w">>
Dykuw == <<"D", "y", "k", "u", "w">>
Stvorhth_qe == <<"X", "t", "v", "o", "r", "h", "t", "h", " ", "q", "e">>

\* The texts the users send.
Texts == {tak, Tak, tak_sp, ok, zgoden, dobre, ni, Ni, ne_zgoden, nit,
          comu_dorogo, mojna_desevse, naviqo, Dykuw, Stvorhth_qe}

\* str.lower() on one character.
LowerChar(c) ==
    CASE c = "T" -> "t"
      [] c = "N" -> "n"
      [] c = "D" -> "d"
      [] c = "X" -> "x"
      [] OTHER -> c

\* str.lower()
Lower(s) == [i \in 1..Len(s) |-> LowerChar(s[i])]

RECURSIVE LStrip(_)
LStrip(s) == IF s # <<>> /\ Head(s) = " " THEN LStrip(Tail(s)) ELSE s

RECURSIVE RStrip(_)
RStrip(s) ==
    IF s # <<>> /\ s[Len(s)] = " " THEN RStrip(SubSeq(s, 1, Len(s) - 1)) ELSE s

\* str.strip()
Strip(s) == RStrip(LStrip(s))

\* The test  sub in s  on strings.
Contains(s, sub) ==
    \E i \in 0..(Len(s) - Len(sub)) : SubSeq(s, i + 1, i + Len(sub)) = sub

(* ---- dicts ------------------------------------------------------------ *)
\* The empty dict.
EmptyDict == [k \in {} |-> <<>>]

\* dict.get(key, default)
Get(d, key, default) == IF key \in DOMAIN d THEN d[key] ELSE default

\* dict.update(other): the keys of other win.
DictUpdate(d, other) ==
    [k \in DOMAIN d \cup DOMAIN other |-> IF k \in DOMAIN other THEN other[k] ELSE d[k]]

\* Mutant of SetItem: one session shared by all the users.
SetItem_shared(d, key, value) == [k \in DOMAIN d \cup {key} |-> value]

\* d[key] = value on the dict user_data_storage.
SetItem(d, key, value) ==
    [k \in DOMAIN d \cup {key} |-> IF k = key THEN value ELSE d[k]]

PassportKeys == {"full_name", "passport_number"}
VehicleKeys == {"car_brand", "car_model", "vin_number"}
FieldKeys == PassportKeys \cup VehicleKeys

Unknown == <<"U", "n", "k", "n", "o", "w", "n">>
Nevidomo == <<"N", "e", "v", "i", "d", "o", "m", "o">>

(* ---- the document-extraction service (Mindee) ------------------------- *)
\* What enqueue_and_parse does for a photo: it raises, or it returns the
\* fields it found (a field it did not find is missing from the mapping).
MindeeError == [error |-> TRUE, fields |-> EmptyDict]
MindeeFields(f) == [error |-> FALSE, fields |-> f]

PassportResponses ==
    { MindeeError,
      MindeeFields([surnames |-> <<"F">>, given_names |-> <<"I">>,
                    passport_number |-> <<"7">>]),
      MindeeFields([given_names |-> <<"I">>]),
      MindeeFields(EmptyDict) }

VehicleResponses ==
    { MindeeError,
      MindeeFields([car_brand |-> <<"B">>, car_model |-> <<"M">>,
                    vin_number |-> <<"V">>]),
      MindeeFields([vin_number |-> <<"W">>]) }

\* The strings an extraction can put into a field.
ExtractedStrings ==
    { <<"I", " ", "F">>, <<"I">>, <<"F">>, <<"7">>, <<"B">>, <<"M">>, <<"V">>, <<"W">> }

\* Mutant of extract_passport_data: the except branch returns an empty dict.
extract_passport_data_empty(response) ==
    IF response.error
    THEN EmptyDict
    ELSE LET fields == response.fields
             surnames == Get(fields, "surnames", <<>>)
             given_names == Get(fields, "given_names", <<>>)
             joined == Strip(given_names \o <<" ">> \o surnames)
         IN  [full_name |-> IF joined = <<>> THEN Unknown ELSE joined,
              passport_number |-> Get(fields, "passport_number", Unknown)]

extract_passport_data(response) ==
    IF response.error
    THEN [full_name |-> Unknown, passport_number |-> Unknown]
    ELSE LET fields == response.fields
             surnames == Get(fields, "surnames", <<>>)
             given_names == Get(fields, "given_names", <<>>)
             joined == Strip(given_names \o <<" ">> \o surnames)
         IN  [full_name |-> IF joined = <<>> THEN Unknown ELSE joined,
              passport_number |-> Get(fields, "passport_number", Unknown)]

\* Mutant of extract_vehicle_data: the except branch forgets vin_number.
extract_vehicle_data_no_vin(response) ==
    IF response.error
    THEN [car_brand |-> Unknown, car_model |-> Unknown]
    ELSE LET fields == response.fields
         IN  [car_brand |-> Get(fields, "car_brand", Unknown),
              car_model |-> Get(fields, "car_model", Unknown),
              vin_number |-> Get(fields, "vin_number", Unknown)]

extract_vehicle_data(response) ==
    IF response.error
    THEN [car_brand |-> Unknown, car_model |-> Unknown, vin_number |-> Unknown]
    ELSE LET fields == response.fields
         IN  [car_brand |-> Get(fields, "car_brand", Unknown),
              car_model |-> Get(fields, "car_model", Unknown),
              vin_number |-> Get(fields, "vin_number", Unknown)]

\* Outcome of the Mindee call as the step observes it.
MindeeOutcome(response) == IF response.error THEN <<"error">> ELSE <<"ok">>

(* ---- download_photo --------------------------------------------------- *)
\* The paths some session still refers to.
UsedPaths ==
    UNION { { user_data_storage[u].passport_photo } \cup
            ( IF "car_doc" \in DOMAIN user_data_storage[u]
              THEN { user_data_storage[u].car_doc } ELSE {} )
            : u \in DOMAIN user_data_storage }

\* NamedTemporaryFile(delete=False) gives a name no existing file has: the
\* first name that no session refers to.
download_photo ==
    CHOOSE p \in Paths \ UsedPaths : \A q \in Paths \ UsedPaths : p <= q

(* ---- messages --------------------------------------------------------- *)
Msg(text, keyboard) == [text |-> text, keyboard |-> keyboard, slots |-> EmptyDict]
Plain(text) == Msg(text, "none")
YesNo(text) == Msg(text, "Tak/Ni")

\* A handler's effect: the state it returns ({} for None), the storage it
\* leaves, the messages it sends, the collaborator calls it makes and the
\* dict an extraction returned to it.
Result(handler, ret, store, msgs) ==
    [handler |-> handler, ret |-> ret, store |-> store, sent |-> msgs,
     ai |-> <<>>, mindee |-> <<>>, returned |-> EmptyDict, raised |-> FALSE]

\* The handler raises before it changed the storage or sent anything.
Raised(handler) ==
    [handler |-> handler, ret |-> {}, store |-> user_data_storage, sent |-> <<>>,
     ai |-> <<>>, mindee |-> <<>>, returned |-> EmptyDict, raised |-> TRUE]

\* No handler of the conversation accepts the update.
NotHandled == Result("", {}, user_data_storage, <<>>)

(* ---- the language model ----------------------------------------------- *)
AiOutcomes == {"ok", "error"}

answer_user_question_with_ai(ai) ==
    IF ai = "ok" THEN Plain("llm: why the photo is needed")
    ELSE Plain("Vybacte, qos piwlo ne tak z vidpoviddw")

\* Mutant of ask_ai_about_price: the canned explanation is missing.
ask_ai_about_price_none(ai) ==
    IF ai = "ok" THEN Plain("llm: why the price is fixed") ELSE Plain("None")

ask_ai_about_price(ai) ==
    IF ai = "ok" THEN Plain("llm: why the price is fixed")
    ELSE Plain("Cina, na jal, fiksovana")

(* ---- handlers --------------------------------------------------------- *)
\* Mutant of start: the conversation opens at the vehicle document.
start_skip_passport(u) ==
    Result("start", {ASK_CAR_DOC}, user_data_storage,
           <<Plain("Pryvit! Nadiwlit foto pasporta")>>)

start(u) ==
    Result("start", {ASK_PASSPORT}, user_data_storage,
           <<Plain("Pryvit! Nadiwlit foto pasporta")>>)

\* Mutant of ReceivePassportSession: an existing session keeps its fields.
ReceivePassportSession_keep(u, image_path, data) ==
    [passport_photo |-> image_path,
     extracted |-> IF u \in DOMAIN user_data_storage
                   THEN DictUpdate(data, user_data_storage[u].extracted)
                   ELSE data]

ReceivePassportSession(u, image_path, data) ==
    [passport_photo |-> image_path, extracted |-> data]

receive_passport(u, photo) ==
    IF photo.download = "error" THEN Raised("receive_passport")
    ELSE LET image_path == download_photo
             data == extract_passport_data(photo.response)
             done == Result("receive_passport", {ASK_CAR_DOC},
                            SetItem(user_data_storage, u,
                                    ReceivePassportSession(u, image_path, data)),
                            <<Plain("Dykuw! Teper nadiwlit foto dokumenta na avto")>>)
         IN  [done EXCEPT !.mindee = MindeeOutcome(photo.response),
                          !.returned = data]

\* The summary of receive_car_doc, with 'Nevidomo' for a missing key.
ConfirmationMsg(data) ==
    [text |-> "Os qo y znaywov. Vse pravylno?", keyboard |-> "Tak/Ni",
     slots |-> [k \in FieldKeys |-> Get(data, k, Nevidomo)]]

\* Mutant of ReceiveCarDocSession: extracted is assigned, not updated.
ReceiveCarDocSession_assign(session, image_path, car) ==
    [passport_photo |-> session.passport_photo,
     extracted |-> car,
     car_doc |-> image_path]

ReceiveCarDocSession(session, image_path, car) ==
    [passport_photo |-> session.passport_photo,
     extracted |-> DictUpdate(session.extracted, car),
     car_doc |-> image_path]

receive_car_doc(u, photo) ==
    IF photo.download = "error" THEN Raised("receive_car_doc")
    ELSE LET image_path == download_photo
             car == extract_vehicle_data(photo.response)
         IN  IF u \notin DOMAIN user_data_storage
             THEN [Raised("receive_car_doc") EXCEPT
                      !.mindee = MindeeOutcome(photo.response), !.returned = car]
             ELSE LET session ==
                          ReceiveCarDocSession(user_data_storage[u], image_path, car)
                      done == Result("receive_car_doc", {CONFIRM_DATA},
                                     SetItem(user_data_storage, u, session),
                                     <<ConfirmationMsg(session.extracted)>>)
                  IN  [done EXCEPT !.mindee = MindeeOutcome(photo.response),
                                   !.returned = car]

\* Mutant of PolicyText: the template has no slot for the VIN.
PolicyText_no_vin(data) ==
    [text |-> "Strahovyy Polis", keyboard |-> "none",
     slots |-> [k \in FieldKeys \ {"vin_number"} |-> Get(data, k, Unknown)]]

\* The template of issue_policy filled from the session.
PolicyText(data) ==
    [text |-> "Strahovyy Polis", keyboard |-> "none",
     slots |-> [k \in FieldKeys |-> Get(data, k, Unknown)]]

issue_policy(u, handler) ==
    IF u \notin DOMAIN user_data_storage THEN Raised(handler)
    ELSE LET data == user_data_storage[u].extracted
         IN  Result(handler, {AFTER_POLICY}, user_data_storage,
                    << Plain("Strahovyy polis stvoreno. Os vaw dokument:"),
                       PolicyText(data),
                       Msg("Bajaete stvoryty qe odyn polis?", "Dykuw/Stvoryty qe") >>)

\* Mutant of ConfirmDataYes: the text is stripped as in handle_reconfirm.
ConfirmDataYes_strip(text) == Strip(Lower(text)) = tak

ConfirmDataYes(text) == Lower(text) = tak

\* Mutant of confirm_data: the else branch asks for the vehicle photo.
confirm_data_car_doc(u, text) ==
    IF Lower(text) = tak
    THEN Result("confirm_data", {PRICE_CONFIRM}, user_data_storage,
                <<YesNo("Cina strahovky stanovyt 100 USD. Pryymaete?")>>)
    ELSE Result("confirm_data", {ASK_CAR_DOC}, user_data_storage,
                <<Plain("Okey, nadiwlit foto pasporta qe raz")>>)

confirm_data(u, text) ==
    IF ConfirmDataYes(text)
    THEN Result("confirm_data", {PRICE_CONFIRM}, user_data_storage,
                <<YesNo("Cina strahovky stanovyt 100 USD. Pryymaete?")>>)
    ELSE Result("confirm_data", {ASK_PASSPORT}, user_data_storage,
                <<Plain("Okey, nadiwlit foto pasporta qe raz")>>)

\* Mutant of PriceObjection: only "comu" is a cue.
PriceObjection_comu(user_text) == Contains(user_text, comu)

PriceObjection(user_text) ==
    Contains(user_text, comu) \/ Contains(user_text, mojna) \/ Contains(user_text, desev)

\* Mutant of HandlePriceYes: "ok" counts as a yes.
HandlePriceYes_ok(user_text) == user_text \in {tak, ok}

HandlePriceYes(user_text) == user_text = tak

handle_price(u, text, ai) ==
    LET user_text == Lower(text)
    IN  IF PriceObjection(user_text)
        THEN [Result("handle_price", {PRICE_CONFIRM}, user_data_storage,
                     << ask_ai_about_price(ai),
                        YesNo("Teper vy zgodni na oformlenny za 100 USD?") >>)
                 EXCEPT !.ai = <<ai>>]
        ELSE IF HandlePriceYes(user_text)
        THEN issue_policy(u, "handle_price")
        ELSE Result("handle_price", {PRICE_RECONFIRM}, user_data_storage,
                    <<YesNo("Vybacte, cina fiksovana (100 USD). Zgodni?")>>)

ReconfirmYes == {tak, zgoden, dobre, ok}
\* Mutant of ReconfirmNo: "ne zgoden" is missing.
ReconfirmNo_short == {ni, nit}

ReconfirmNo == {ni, ne_zgoden, nit}

\* Mutant of handle_reconfirm: after the explanation the conversation is
\* back in PRICE_CONFIRM.
handle_reconfirm_back(u, text, ai) ==
    LET user_input == Strip(Lower(text))
    IN  IF user_input \in ReconfirmYes
        THEN issue_policy(u, "handle_reconfirm")
        ELSE IF user_input \in ReconfirmNo
        THEN Result("handle_reconfirm", {END}, user_data_storage,
                    <<Plain("Dobre. Spodivawsy pobacyty vas nastupnogo razu!")>>)
        ELSE [Result("handle_reconfirm", {PRICE_CONFIRM}, user_data_storage,
                     IF ai = "ok"
                     THEN << Plain("llm: why the price is 100 USD"),
                             YesNo("Pisly poysnenny, vy pogodjuetes na polis?") >>
                     ELSE << Plain("Na jal, zaraz ne moju vidpovisty") >>)
                 EXCEPT !.ai = <<ai>>]

handle_reconfirm(u, text, ai) ==
    LET user_input == Strip(Lower(text))
    IN  IF user_input \in ReconfirmYes
        THEN issue_policy(u, "handle_reconfirm")
        ELSE IF user_input \in ReconfirmNo
        THEN Result("handle_reconfirm", {END}, user_data_storage,
                    <<Plain("Dobre. Spodivawsy pobacyty vas nastupnogo razu!")>>)
        ELSE [Result("handle_reconfirm", {PRICE_RECONFIRM}, user_data_storage,
                     IF ai = "ok"
                     THEN << Plain("llm: why the price is 100 USD"),
                             YesNo("Pisly poysnenny, vy pogodjuetes na polis?") >>
                     ELSE << Plain("Na jal, zaraz ne moju vidpovisty") >>)
                 EXCEPT !.ai = <<ai>>]

\* Mutant of after_policy: restarting the flow deletes the session.
after_policy_forget(u, text) ==
    IF Contains(Lower(text), dykuw)
    THEN Result("after_policy", {END}, user_data_storage,
                <<Plain("Dykuw za vykorystanny bota! Do zustrici")>>)
    ELSE [start(u) EXCEPT
             !.handler = "after_policy",
             !.store = [v \in DOMAIN user_data_storage \ {u} |-> user_data_storage[v]]]

after_policy(u, text) ==
    IF Contains(Lower(text), dykuw)
    THEN Result("after_policy", {END}, user_data_storage,
                <<Plain("Dykuw za vykorystanny bota! Do zustrici")>>)
    ELSE [start(u) EXCEPT !.handler = "after_policy"]

\* Mutant of cancel: the session is deleted.
cancel_forget(u) ==
    Result("cancel", {END},
           [v \in DOMAIN user_data_storage \ {u} |-> user_data_storage[v]],
           <<Plain("Skasovano. Dly pocatku vvedit /start")>>)

cancel(u) ==
    Result("cancel", {END}, user_data_storage,
           <<Plain("Skasovano. Dly pocatku vvedit /start")>>)

QuestionCues == {naviqo, comu, dly_cogo, a_ykqo, ci_potribno}

handle_unexpected_input(u, text, ai) ==
    LET user_message == Lower(text)
    IN  IF \E word \in QuestionCues : Contains(user_message, word)
        THEN [Result("handle_unexpected_input", {}, user_data_storage,
                     <<answer_user_question_with_ai(ai)>>)
                 EXCEPT !.ai = <<ai>>]
        ELSE Result("handle_unexpected_input", {}, user_data_storage,
                    <<Plain("Y ocikuw foto. Nadiwlit foto, yk bulo zaproweno")>>)

\* Mutant of error_handler: the error is logged and nothing is sent.
error_handler_silent == <<>>

\* What error_handler sends; every update of the model carries a message.
error_handler == <<Plain("Stalasy pomylka(( Sprobuyte qe raz abo vvedit /start")>>

(* ---- updates ---------------------------------------------------------- *)
PhotoUpdate(u) == [user |-> u, kind |-> "photo", text |-> <<>>, command |-> ""]
TextUpdate(u, t) == [user |-> u, kind |-> "text", text |-> t, command |-> ""]
CommandUpdate(u, c) == [user |-> u, kind |-> "command", text |-> <<>>, command |-> c]

\* What a photo brings: whether its download works and what Mindee makes of it.
Photos(responses) == [download : {"ok", "error"}, response : responses]

\* ConversationHandler: outside a conversation only the entry point is tried;
\* inside one, the handlers of the state and then the fallbacks.
conv_handler(u, upd, photo, ai) ==
    LET state == conv[u]
        isText == upd.kind = "text"
        isPhoto == upd.kind = "photo"
    IN  IF state = END
        THEN IF upd.kind = "command" /\ upd.command = "start" THEN start(u)
             ELSE NotHandled
        ELSE CASE state = ASK_PASSPORT /\ isPhoto -> receive_passport(u, photo)
               [] state = ASK_PASSPORT /\ isText ->
                      handle_unexpected_input(u, upd.text, ai)
               [] state = ASK_CAR_DOC /\ isPhoto -> receive_car_doc(u, photo)
               [] state = ASK_CAR_DOC /\ isText ->
                      handle_unexpected_input(u, upd.text, ai)
               [] state = CONFIRM_DATA /\ isText -> confirm_data(u, upd.text)
               [] state = PRICE_CONFIRM /\ isText -> handle_price(u, upd.text, ai)
               [] state = PRICE_RECONFIRM /\ isText ->
                      handle_reconfirm(u, upd.text, ai)
               [] state = AFTER_POLICY /\ isText -> after_policy(u, upd.text)
               [] upd.kind = "command" /\ upd.command = "cancel" -> cancel(u)
               [] OTHER -> NotHandled

(* ---- observers -------------------------------------------------------- *)
IsPolicyText(m) == m.text = "Strahovyy Polis"

\* The policy documents among the messages.
PolicyTexts(msgs) == SelectSeq(msgs, IsPolicyText)

NoRun == [pos |-> 0, docs |-> 0]

\* Progress of u along /start, photo, photo, "tak", "tak" (each photo
\* downloaded), and the policy documents sent on the way.
HappyNext(u, upd, h, msgs) ==
    LET pos == happy[u].pos
        yes == upd.kind = "text" /\ Lower(upd.text) = tak
        photoIn == upd.kind = "photo" /\ ~h.raised
        step == [pos |-> pos + 1, docs |-> happy[u].docs + Len(PolicyTexts(msgs))]
    IN  CASE conv[u] = END /\ h.handler = "start" ->
                 [pos |-> 1, docs |-> Len(PolicyTexts(msgs))]
          [] pos \in {1, 2} /\ photoIn -> step
          [] pos \in {3, 4} /\ yes -> step
          [] OTHER -> NoRun

\* Progress of a resubmission: 1 after the restart out of AFTER_POLICY,
\* 2 after the new passport photo, 3 after the new vehicle photo.
AgainNext(u, h, next) ==
    CASE h.handler = "after_policy" /\ next = ASK_PASSPORT -> 1
      [] again[u] = 1 /\ h.handler = "receive_passport" /\ ~h.raised -> 2
      [] again[u] = 2 /\ h.handler = "receive_car_doc" /\ ~h.raised -> 3
      [] again[u] \in {1, 2} /\ next = conv[u] -> again[u]
      [] OTHER -> 0

\* The steps towards a policy since u's conversation last entered
\* ASK_PASSPORT: an accepted passport photo in ASK_PASSPORT, an accepted
\* vehicle photo in ASK_CAR_DOC, "tak" in CONFIRM_DATA, an affirmative in
\* PRICE_CONFIRM or PRICE_RECONFIRM.
TrailNext(u, upd, h, next) ==
    LET text == Lower(upd.text)
        isText == upd.kind = "text"
        accepted == upd.kind = "photo" /\ h.handler # "" /\ ~h.raised
        here == conv[u]
    IN  IF next = ASK_PASSPORT /\ here # ASK_PASSPORT THEN <<>>
        ELSE CASE here = ASK_PASSPORT /\ accepted -> Append(trail[u], "passport")
               [] here = ASK_CAR_DOC /\ accepted -> Append(trail[u], "vehicle")
               [] here = CONFIRM_DATA /\ isText /\ text = tak ->
                      Append(trail[u], "tak")
               [] here = PRICE_CONFIRM /\ isText /\ text = tak ->
                      Append(trail[u], "yes")
               [] here = PRICE_RECONFIRM /\ isText
                    /\ Strip(text) \in {tak, zgoden, dobre, ok} ->
                      Append(trail[u], "yes")
               [] OTHER -> trail[u]

\* No handler holds the event loop.
Idle ==
    [update |-> [user |-> "", kind |-> "", text |-> <<>>, command |-> ""],
     photo |-> [download |-> "ok", response |-> MindeeError],
     ai |-> "ok"]

(* ---- one handled update ----------------------------------------------- *)
\* Application.process_update: the conversation handler runs the update's
\* handler and records the state it returns; an exception leaves the state
\* as it was and goes to error_handler.
\* The effect h of the update's handler on the conversation of u.
Record(u, upd, h) ==
    LET next == IF h.raised \/ h.ret = {} THEN conv[u] ELSE CHOOSE s \in h.ret : TRUE
        msgs == IF h.raised THEN error_handler ELSE h.sent
    IN  /\ conv' = [conv EXCEPT ![u] = next]
        /\ user_data_storage' = h.store
        /\ update' = upd
        /\ prev' = conv[u]
        /\ sent' = msgs
        /\ calls' = [handler |-> h.handler, ai |-> h.ai, mindee |-> h.mindee,
                     error_handler |-> h.raised]
        /\ extracted' = IF h.handler = "receive_passport" /\ ~h.raised
                        THEN [extracted EXCEPT ![u] = h.returned] ELSE extracted
        /\ car_data' = IF h.handler = "receive_passport" /\ ~h.raised
                       THEN [car_data EXCEPT ![u] = EmptyDict]
                       ELSE IF h.handler = "receive_car_doc" /\ ~h.raised
                       THEN [car_data EXCEPT ![u] = h.returned] ELSE car_data
        /\ happy' = [happy EXCEPT ![u] = HappyNext(u, upd, h, msgs)]
        /\ again' = [again EXCEPT ![u] = AgainNext(u, h, next)]
        /\ trail' = [trail EXCEPT ![u] = TrailNext(u, upd, h, next)]
        /\ loop' = Idle

ProcessUpdate(u, upd, photo, ai) ==
    /\ \E h \in {conv_handler(u, upd, photo, ai)} : Record(u, upd, h)
    /\ UNCHANGED taken

NoPhoto == [download |-> "ok", response |-> MindeeError]

\* Every action starts from a user the dispatcher keeps a conversation
\* state for; the updates and their outcomes are the action's inputs.
Photo(u) ==
    /\ u \in DOMAIN conv
    /\ \E photo \in Photos(IF conv[u] = ASK_CAR_DOC THEN VehicleResponses
                           ELSE PassportResponses) :
           ProcessUpdate(u, PhotoUpdate(u), photo, "ok")

Text(u) ==
    /\ u \in DOMAIN conv
    /\ \E t \in Texts, ai \in AiOutcomes :
           ProcessUpdate(u, TextUpdate(u, t), NoPhoto, ai)

StartCommand(u) ==
    /\ u \in DOMAIN conv
    /\ ProcessUpdate(u, CommandUpdate(u, "start"), NoPhoto, "ok")

CancelCommand(u) ==
    /\ u \in DOMAIN conv
    /\ ProcessUpdate(u, CommandUpdate(u, "cancel"), NoPhoto, "ok")

\* A command the bot has no handler for.
OtherCommand(u) ==
    /\ u \in DOMAIN conv
    /\ ProcessUpdate(u, CommandUpdate(u, "help"), NoPhoto, "ok")

NoUpdate == [user |-> "", kind |-> "", text |-> <<>>, command |-> ""]

Init ==
    /\ conv = [u \in Users |-> END]
    /\ user_data_storage = EmptyDict
    /\ update = NoUpdate
    /\ prev = END
    /\ sent = <<>>
    /\ calls = [handler |-> "", ai |-> <<>>, mindee |-> <<>>, error_handler |-> FALSE]
    /\ extracted = [u \in Users |-> EmptyDict]
    /\ car_data = [u \in Users |-> EmptyDict]
    /\ happy = [u \in Users |-> NoRun]
    /\ again = [u \in Users |-> 0]
    /\ trail = [u \in Users |-> <<>>]
    /\ loop = Idle
    /\ taken = 0

\* The users who talk to the bot under Spec.
Solo == {"u1"}

Next ==
    \E u \in Solo :
        \/ Photo(u)
        \/ Text(u)
        \/ StartCommand(u)
        \/ CancelCommand(u)
        \/ OtherCommand(u)

Spec == Init /\ [][Next]_vars

(* ---- two users and the event loop ------------------------------------- *)
\* The inputs of the two users under SpecUsers.
UsersTexts == {Tak, Ni, comu_dorogo, Dykuw}

UsersPassports ==
    {r \in PassportResponses : r.error \/ "surnames" \in DOMAIN r.fields}

UsersVehicles ==
    {r \in VehicleResponses : r.error \/ "car_brand" \in DOMAIN r.fields}

\* The application takes one update at a time, and a handler that calls
\* Mindee or the language model makes the call on the thread of the event
\* loop: the update stays in the loop until the call returns, and only then
\* the handler's effects take place.  A handler without such a call runs
\* through at once.  The runs are cut after MaxUpdates updates.
MaxUpdates == 8

Dispatch(u, upd, photo, ai) ==
    /\ loop = Idle
    /\ taken < MaxUpdates
    /\ taken' = taken + 1
    /\ \E h \in {conv_handler(u, upd, photo, ai)} :
           IF h.mindee # <<>> \/ h.ai # <<>>
           THEN /\ loop' = [update |-> upd, photo |-> photo, ai |-> ai]
                /\ UNCHANGED <<conv, user_data_storage, update, prev, sent, calls,
                               extracted, car_data, happy, again, trail>>
           ELSE Record(u, upd, h)

UsersPhoto(u) ==
    /\ u \in DOMAIN conv
    /\ \E photo \in Photos(IF conv[u] = ASK_CAR_DOC THEN UsersVehicles
                           ELSE UsersPassports) :
           Dispatch(u, PhotoUpdate(u), photo, "ok")

UsersText(u) ==
    /\ u \in DOMAIN conv
    /\ \E t \in UsersTexts, ai \in AiOutcomes :
           Dispatch(u, TextUpdate(u, t), NoPhoto, ai)

UsersStart(u) ==
    /\ u \in DOMAIN conv
    /\ Dispatch(u, CommandUpdate(u, "start"), NoPhoto, "ok")

UsersCancel(u) ==
    /\ u \in DOMAIN conv
    /\ Dispatch(u, CommandUpdate(u, "cancel"), NoPhoto, "ok")

\* The collaborator call of the handler in the loop returns, with the
\* outcome the update carries.
CallReturns ==
    /\ loop # Idle
    /\ ProcessUpdate(loop.update.user, loop.update, loop.photo, loop.ai)

NextUsers ==
    \/ \E u \in Users :
           \/ UsersPhoto(u)
           \/ UsersText(u)
           \/ UsersStart(u)
           \/ UsersCancel(u)
    \/ CallReturns

SpecUsers == Init /\ [][NextUsers]_vars

(* ======================================================================= *)
(* Properties                                                              *)
(* ======================================================================= *)
\* The last step handled an update of u.
Handled(u) == update.user = u

\* The last step ran issue_policy for the user of the update: it sent the
\* document, or it raised inside handle_price / handle_reconfirm.
IssuePolicyRan ==
    \/ PolicyTexts(sent) # <<>>
    \/ calls.error_handler /\ calls.handler \in {"handle_price", "handle_reconfirm"}

\* The extracted fields of u's session (no session: no fields).
ExtractedFields(u) ==
    IF u \in DOMAIN user_data_storage THEN user_data_storage[u].extracted
    ELSE EmptyDict

\* C1: along /start, photo, photo, "tak", "tak", whatever the two
\* extraction calls return, exactly one policy document is sent: by the last
\* step, with the five slots holding the passport result of the run merged
\* with its vehicle result; the conversation is then in AFTER_POLICY.
C1_HappyPathIssuesOnePolicy ==
    \A u \in Users :
        /\ happy[u].pos \in 1..4 => happy[u].docs = 0
        /\ happy[u].pos = 5 /\ Handled(u) =>
              /\ conv[u] = AFTER_POLICY
              /\ happy[u].docs = 1
              /\ Len(PolicyTexts(sent)) = 1
              /\ DOMAIN PolicyTexts(sent)[1].slots = FieldKeys
              /\ PolicyTexts(sent)[1].slots = DictUpdate(extracted[u], car_data[u])

\* The happy path ended, with a passport that was read and a vehicle
\* document of which only the VIN was read.
C1_Witness ==
    \E u \in Users :
        /\ happy[u].pos = 5 /\ Handled(u)
        /\ extracted[u] = [full_name |-> <<"I", " ", "F">>, passport_number |-> <<"7">>]
        /\ car_data[u] = [car_brand |-> Unknown, car_model |-> Unknown,
                          vin_number |-> <<"W">>]

\* C2: whenever issue_policy runs for a user, the user's session holds all
\* five keys in extracted, each an extracted string or "Unknown".
C2_FiveKeysAtIssuance ==
    \A u \in Users :
        Handled(u) /\ IssuePolicyRan =>
            /\ u \in DOMAIN user_data_storage
            /\ DOMAIN ExtractedFields(u) = FieldKeys
            /\ \A k \in DOMAIN ExtractedFields(u) :
                   ExtractedFields(u)[k] \in ExtractedStrings \cup {Unknown}

\* A policy issued after the passport extraction failed and the vehicle
\* extraction worked.
C2_Witness ==
    \E u \in Users :
        /\ Handled(u) /\ PolicyTexts(sent) # <<>>
        /\ ExtractedFields(u) =
               [full_name |-> Unknown, passport_number |-> Unknown,
                car_brand |-> <<"B">>, car_model |-> <<"M">>, vin_number |-> <<"V">>]

\* The explicit rules of the transition table: does the update match one
\* of the rules of the state?
C3_Matches(state, upd) ==
    LET text == Lower(upd.text)
        isText == upd.kind = "text"
    IN  \/ upd.kind = "command" /\ upd.command = "cancel"
        \/ /\ state \in {ASK_PASSPORT, ASK_CAR_DOC}
           /\ \/ upd.kind = "photo"
              \/ isText /\ \E w \in {naviqo, comu, dly_cogo, a_ykqo, ci_potribno} :
                               Contains(text, w)
        \/ state = CONFIRM_DATA /\ isText /\ text = tak
        \/ /\ state = PRICE_CONFIRM /\ isText
           /\ \/ text = tak
              \/ \E w \in {comu, mojna, desev} : Contains(text, w)
        \/ /\ state = PRICE_RECONFIRM /\ isText
           /\ Strip(text) \in {tak, zgoden, dobre, ok, ni, ne_zgoden, nit}
        \/ state = AFTER_POLICY /\ isText /\ Contains(text, dykuw)

\* The documented default successor of a state.
C3_Default(state) ==
    CASE state = CONFIRM_DATA -> ASK_PASSPORT
      [] state = PRICE_CONFIRM -> PRICE_RECONFIRM
      [] state = AFTER_POLICY -> ASK_PASSPORT
      [] OTHER -> state

\* C3: from each of the six states every update has a successor among the
\* states and END, and an update that matches no explicit rule of the state
\* leaves the state or moves to the state's documented default.
C3_UnmatchedInputStaysOrDefault ==
    \A u \in Users :
        Handled(u) /\ prev \in States =>
            /\ conv[u] \in States \cup {END}
            /\ ~C3_Matches(prev, update) => conv[u] \in {prev, C3_Default(prev)}

\* A "no" on the price moved ConfirmPrice to its default successor.
C3_Witness ==
    \E u \in Users :
        /\ Handled(u) /\ prev = PRICE_CONFIRM /\ update.text = Ni
        /\ conv[u] = PRICE_RECONFIRM

\* C4: in PRICE_RECONFIRM a negative text sends the farewell and no
\* policy document and ends the conversation; a text in neither set makes
\* exactly one language-model call, issues no policy and stays.
C4_ReconfirmNoAndOther ==
    \A u \in Users :
        Handled(u) /\ prev = PRICE_RECONFIRM /\ update.kind = "text" =>
            LET user_input == Strip(Lower(update.text))
            IN  /\ user_input \in {ni, ne_zgoden, nit} =>
                      /\ conv[u] = END
                      /\ sent = <<Plain("Dobre. Spodivawsy pobacyty vas nastupnogo razu!")>>
                      /\ calls.ai = <<>>
                /\ user_input \notin {tak, zgoden, dobre, ok, ni, ne_zgoden, nit} =>
                      /\ conv[u] = PRICE_RECONFIRM
                      /\ Len(calls.ai) = 1
                      /\ PolicyTexts(sent) = <<>>

\* "comu dorogo" in PRICE_RECONFIRM, with the language model failing.
C4_Witness ==
    \E u \in Users :
        /\ Handled(u) /\ prev = PRICE_RECONFIRM /\ update.text = comu_dorogo
        /\ calls.ai = <<"error">> /\ conv[u] = PRICE_RECONFIRM

\* C5: in CONFIRM_DATA and PRICE_CONFIRM a text is affirmative exactly
\* when it equals "tak" after lower(); in PRICE_RECONFIRM every member of
\* {"tak", "zgoden", "dobre", "ok"} is.  So "ok" issues a policy from
\* PRICE_RECONFIRM, moves PRICE_CONFIRM to PRICE_RECONFIRM without a policy
\* and does not bring CONFIRM_DATA to PRICE_CONFIRM.
C5_AffirmativeRulesDiffer ==
    \A u \in Users :
        Handled(u) /\ update.kind = "text" =>
            LET text == Lower(update.text)
                issued == PolicyTexts(sent) # <<>> /\ conv[u] = AFTER_POLICY
            IN  /\ prev = CONFIRM_DATA => (conv[u] = PRICE_CONFIRM <=> text = tak)
                /\ prev = PRICE_CONFIRM => (issued <=> text = tak)
                /\ prev = PRICE_RECONFIRM /\ text \in {tak, zgoden, dobre, ok} => issued
                /\ prev = PRICE_CONFIRM /\ text = ok =>
                       conv[u] = PRICE_RECONFIRM /\ PolicyTexts(sent) = <<>>
                /\ prev = CONFIRM_DATA /\ text = ok => conv[u] # PRICE_CONFIRM

\* "ok" issued the policy from PRICE_RECONFIRM.
C5_Witness ==
    \E u \in Users :
        /\ Handled(u) /\ prev = PRICE_RECONFIRM /\ update.text = ok
        /\ PolicyTexts(sent) # <<>> /\ conv[u] = AFTER_POLICY

\* C6: when the Mindee call of a photo handler fails, the conversation
\* advances as it does when the call works (ASK_PASSPORT to ASK_CAR_DOC,
\* ASK_CAR_DOC to CONFIRM_DATA), every field of that call is "Unknown" in
\* the session, and error_handler does not run.
C6_ExtractionFailureDegrades ==
    \A u \in Users :
        Handled(u) /\ calls.mindee # <<>> =>
            /\ prev = ASK_PASSPORT => conv[u] = ASK_CAR_DOC
            /\ prev = ASK_CAR_DOC => conv[u] = CONFIRM_DATA
            /\ prev \in {ASK_PASSPORT, ASK_CAR_DOC}
            /\ calls.mindee = <<"error">> =>
                  /\ ~calls.error_handler
                  /\ \A k \in (IF prev = ASK_PASSPORT THEN PassportKeys ELSE VehicleKeys) :
                         Get(ExtractedFields(u), k, <<>>) = Unknown

\* The vehicle extraction failed after a passport that was read.
C6_Witness ==
    \E u \in Users :
        /\ Handled(u) /\ calls.mindee = <<"error">> /\ prev = ASK_CAR_DOC
        /\ conv[u] = CONFIRM_DATA
        /\ ExtractedFields(u).full_name = <<"I", " ", "F">>

\* C7: the "issue another policy" path out of AFTER_POLICY returns to
\* ASK_PASSPORT, and after the passport photo and the vehicle photo that
\* follow, extracted is exactly the new passport result merged with the new
\* vehicle result: five keys, nothing left of the previous submission.
C7_ResubmissionOverwrites ==
    \A u \in Users :
        /\ ( /\ Handled(u) /\ prev = AFTER_POLICY /\ update.kind = "text"
             /\ ~Contains(Lower(update.text), dykuw) ) =>
               conv[u] = ASK_PASSPORT /\ again[u] = 1
        /\ again[u] = 3 =>
               /\ DOMAIN ExtractedFields(u) = FieldKeys
               /\ Cardinality(DOMAIN ExtractedFields(u)) = Cardinality(FieldKeys)
               /\ ExtractedFields(u) = DictUpdate(extracted[u], car_data[u])

\* A resubmission after an issued policy is complete, both of its
\* extractions having failed.
C7_Witness ==
    \E u \in Users :
        /\ again[u] = 3 /\ conv[u] = CONFIRM_DATA
        /\ \A k \in FieldKeys : Get(ExtractedFields(u), k, <<>>) = Unknown

\* C8: /cancel in any of the six states sends the cancellation notice and
\* nothing else, ends the conversation and leaves user_data_storage as it is.
C8_CancelEnds ==
    [][ \A u \in Users :
          ( /\ update'.user = u /\ update'.kind = "command"
            /\ update'.command = "cancel" /\ conv[u] \in States ) =>
              /\ conv'[u] = END
              /\ sent' = <<Plain("Skasovano. Dly pocatku vvedit /start")>>
              /\ user_data_storage' = user_data_storage ]_vars

\* /cancel ended a conversation that was in PRICE_RECONFIRM.
C8_Witness ==
    \E u \in Users :
        /\ Handled(u) /\ update.command = "cancel" /\ prev = PRICE_RECONFIRM
        /\ conv[u] = END /\ u \in DOMAIN user_data_storage

\* The re-prompt of confirm_data.
C9_Reprompt == <<Plain("Okey, nadiwlit foto pasporta qe raz")>>

\* C9 as claimed: in CONFIRM_DATA every input other than a text equal to
\* "tak" after lower() and other than /cancel sends the passport re-prompt
\* and moves to ASK_PASSPORT.
C9_AnyOtherInputReprompts ==
    \A u \in Users :
        ( /\ Handled(u) /\ prev = CONFIRM_DATA
          /\ ~(update.kind = "text" /\ Lower(update.text) = tak)
          /\ ~(update.kind = "command" /\ update.command = "cancel") ) =>
            conv[u] = ASK_PASSPORT /\ sent = C9_Reprompt

\* C9 as amended: in CONFIRM_DATA every text message other than one equal
\* to "tak" after lower() sends the passport re-prompt and moves to
\* ASK_PASSPORT; a photo or a command other than /cancel is not handled:
\* nothing is sent and the state stays CONFIRM_DATA.
C9_OtherTextReprompts ==
    \A u \in Users :
        Handled(u) /\ prev = CONFIRM_DATA =>
            /\ update.kind = "text" /\ Lower(update.text) # tak =>
                   conv[u] = ASK_PASSPORT /\ sent = C9_Reprompt
            /\ ( \/ update.kind = "photo"
                 \/ update.kind = "command" /\ update.command # "cancel" ) =>
                   conv[u] = CONFIRM_DATA /\ sent = <<>>

\* "tak " with a trailing blank was taken as a "no" in CONFIRM_DATA.
C9_Witness ==
    \E u \in Users :
        /\ Handled(u) /\ prev = CONFIRM_DATA /\ update.text = tak_sp
        /\ conv[u] = ASK_PASSPORT /\ sent = C9_Reprompt

\* The photo paths of u's session: passport_photo and car_doc (0: not set).
ImagePaths(store, u) ==
    IF u \notin DOMAIN store THEN <<0, 0>>
    ELSE << store[u].passport_photo,
            IF "car_doc" \in DOMAIN store[u] THEN store[u].car_doc ELSE 0 >>

\* C10 as claimed: once passport_photo or car_doc is set in a session, no
\* later step changes its value.
C10_PathsWriteOnce ==
    [][ \A u \in Users : \A i \in 1..2 :
          ImagePaths(user_data_storage, u)[i] # 0 =>
              ImagePaths(user_data_storage', u)[i] = ImagePaths(user_data_storage, u)[i]
      ]_vars

\* C10 as amended: the paths change only when a photo is accepted:
\* passport_photo only by receive_passport (ASK_PASSPORT), which puts a new
\* path and drops car_doc; car_doc only by receive_car_doc (ASK_CAR_DOC),
\* which puts a new path.  Every other step leaves both as they are.
C10_PathsChangeOnlyOnPhoto ==
    [][ \A u \in Users :
          LET old == ImagePaths(user_data_storage, u)
              new == ImagePaths(user_data_storage', u)
              accepted == update'.user = u /\ update'.kind = "photo"
                          /\ ~calls'.error_handler
          IN  /\ new # old => accepted /\ conv[u] \in {ASK_PASSPORT, ASK_CAR_DOC}
              /\ accepted /\ conv[u] = ASK_PASSPORT =>
                     new[1] \notin {0, old[1], old[2]} /\ new[2] = 0
              /\ accepted /\ conv[u] = ASK_CAR_DOC =>
                     new[1] = old[1] /\ new[2] \notin {0, old[1], old[2]}
      ]_vars

\* A second passport photo replaced the path of a complete session.
C10_Witness ==
    \E u \in Users :
        /\ Handled(u) /\ update.kind = "photo" /\ prev = ASK_PASSPORT
        /\ conv[u] = ASK_CAR_DOC
        /\ ImagePaths(user_data_storage, u) = <<3, 0>>

\* The keys of the extracted fields of u's session in a store.
FieldKeysOf(store, u) ==
    IF u \in DOMAIN store THEN DOMAIN store[u].extracted ELSE {}

\* C11 as claimed: the key set of a session's extracted fields only grows: a
\* key present in one state is present in every later state.
C11_KeysNeverRemoved ==
    [][ \A u \in Users :
          FieldKeysOf(user_data_storage, u) \subseteq FieldKeysOf(user_data_storage', u)
      ]_vars

\* C11 as amended: keys are removed only by an accepted passport photo, which
\* leaves exactly the two passport keys; an accepted vehicle photo adds the
\* three vehicle keys to the keys there are; every other step leaves the key
\* set as it is.
C11_KeysGrowUntilNextPassport ==
    [][ \A u \in Users :
          LET old == FieldKeysOf(user_data_storage, u)
              new == FieldKeysOf(user_data_storage', u)
              accepted == update'.user = u /\ update'.kind = "photo"
                          /\ ~calls'.error_handler
          IN  /\ accepted /\ conv[u] = ASK_PASSPORT => new = PassportKeys
              /\ accepted /\ conv[u] = ASK_CAR_DOC => new = old \cup VehicleKeys
              /\ ~(accepted /\ conv[u] \in {ASK_PASSPORT, ASK_CAR_DOC}) => new = old
      ]_vars

\* A passport photo sent after a complete submission left the session with
\* the two passport keys only.
C11_Witness ==
    \E u \in Users :
        /\ Handled(u) /\ update.kind = "photo" /\ prev = ASK_PASSPORT
        /\ again[u] = 2
        /\ FieldKeysOf(user_data_storage, u) = PassportKeys

\* C12: no handler works on the session of a user who has none: whenever
\* receive_car_doc or issue_policy runs for a user, the storage already holds
\* that user's session, put there by receive_passport in ASK_PASSPORT, and
\* neither of them raises for a missing session.
C12_SessionExistsWhenUsed ==
    [][ \A u \in Users :
          LET carDocRuns == update'.kind = "photo" /\ conv[u] = ASK_CAR_DOC
              issueRuns == /\ calls'.handler \in {"handle_price", "handle_reconfirm"}
                           /\ PolicyTexts(sent') # <<>> \/ calls'.error_handler
          IN  update'.user = u /\ (carDocRuns \/ issueRuns) =>
                  /\ u \in DOMAIN user_data_storage
                  /\ extracted[u] # EmptyDict
                  /\ calls'.error_handler => carDocRuns /\ calls'.mindee = <<>>
      ]_vars

\* receive_car_doc ran on an existing session, and so did issue_policy.
C12_Witness ==
    \E u \in Users :
        /\ Handled(u) /\ u \in DOMAIN user_data_storage
        /\ \/ calls.handler = "receive_car_doc" /\ calls.mindee = <<"error">>
           \/ calls.handler = "handle_reconfirm" /\ PolicyTexts(sent) # <<>>

\* An update of user v can be taken by the event loop.
CanBeProcessed(v) ==
    ENABLED (UsersPhoto(v) \/ UsersText(v) \/ UsersStart(v) \/ UsersCancel(v))

\* C13 as claimed: while the handler of one user's update waits for a call
\* to Mindee or to the language model, an update of every other user can
\* still be processed: the pending call holds up that user's turn only.
C13_StallBlocksOnlyItsUser ==
    \A u \in Users :
        loop # Idle /\ loop.update.user = u /\ taken < MaxUpdates =>
            \A v \in Users \ {u} : CanBeProcessed(v)

\* The session entry of u in a store (no entry: the empty sequence).
SessionOf(store, u) == IF u \in DOMAIN store THEN <<store[u]>> ELSE <<>>

\* C14: the users are independent under every interleaving of their
\* updates: a step that handles an update of one user leaves the
\* conversation state and the session entry of every other user as they
\* were, and a policy document sent to a user is filled from the results of
\* that user's own two photos.
C14_UsersIndependent ==
    [][ /\ \A u \in Users :
             update'.user # u =>
                 /\ conv'[u] = conv[u]
                 /\ SessionOf(user_data_storage', u) = SessionOf(user_data_storage, u)
        /\ PolicyTexts(sent') # <<>> =>
                 PolicyTexts(sent')[1].slots =
                     DictUpdate(extracted'[update'.user], car_data'[update'.user])
      ]_vars

\* A policy went to one user with that user's fields while the other user
\* holds a session with other fields.
C14_Witness ==
    \E u \in Users : \E v \in Users \ {u} :
        /\ Handled(u) /\ PolicyTexts(sent) # <<>>
        /\ v \in DOMAIN user_data_storage
        /\ user_data_storage[v].extracted["full_name"] #
               user_data_storage[u].extracted["full_name"]
        /\ PolicyTexts(sent)[1].slots["full_name"] =
               user_data_storage[u].extracted["full_name"]

\* C15: when a handler raises (the photo download fails in ASK_PASSPORT or
\* ASK_CAR_DOC), error_handler sends the one apology and the conversation
\* state after the step is the state before it.
C15_RaisingHandlerKeepsState ==
    \A u \in Users :
        /\ Handled(u) /\ update.kind = "photo" /\ calls.mindee = <<>>
              /\ prev \in {ASK_PASSPORT, ASK_CAR_DOC} => calls.error_handler
        /\ Handled(u) /\ calls.error_handler =>
              /\ sent = <<Plain("Stalasy pomylka(( Sprobuyte qe raz abo vvedit /start")>>
              /\ conv[u] = prev

\* The download of the vehicle photo failed.
C15_Witness ==
    \E u \in Users :
        /\ Handled(u) /\ calls.error_handler /\ calls.handler = "receive_car_doc"
        /\ prev = ASK_CAR_DOC /\ conv[u] = ASK_CAR_DOC

\* C16: a text in PRICE_CONFIRM is handled by the first rule that fits: a
\* text with "comu", "mojna" or "desev" gets the language model's
\* explanation and the yes/no question again, stays in PRICE_CONFIRM and
\* issues nothing; otherwise a text that is "tak" after lowercasing issues the
\* policy and goes to AFTER_POLICY; every other text gets the fixed message
\* about the price, without a call to the language model, and goes to
\* PRICE_RECONFIRM.
C16_ConfirmPriceRules ==
    \A u \in Users :
        Handled(u) /\ prev = PRICE_CONFIRM /\ update.kind = "text" =>
            LET t == Lower(update.text)
                cue == Contains(t, comu) \/ Contains(t, mojna) \/ Contains(t, desev)
            IN  /\ cue =>
                      /\ conv[u] = PRICE_CONFIRM
                      /\ Len(calls.ai) = 1
                      /\ Len(sent) = 2
                      /\ sent[1] \in {Plain("llm: why the price is fixed"),
                                      Plain("Cina, na jal, fiksovana")}
                      /\ sent[2] = YesNo("Teper vy zgodni na oformlenny za 100 USD?")
                /\ ~cue /\ t = tak =>
                      /\ conv[u] = AFTER_POLICY
                      /\ Len(PolicyTexts(sent)) = 1
                      /\ calls.ai = <<>>
                /\ ~cue /\ t # tak =>
                      /\ conv[u] = PRICE_RECONFIRM
                      /\ sent = <<YesNo("Vybacte, cina fiksovana (100 USD). Zgodni?")>>
                      /\ calls.ai = <<>>

\* "Mojna desevse?" in PRICE_CONFIRM was answered and the state kept.
C16_Witness ==
    \E u \in Users :
        /\ Handled(u) /\ prev = PRICE_CONFIRM /\ update.text = mojna_desevse
        /\ conv[u] = PRICE_CONFIRM /\ Len(sent) = 2

\* C17: a failing call to the language model changes nothing but the text
\* of the answer: at each of the three places the model is called once, a
\* failure sends the fallback of that place, the conversation stays in the
\* state the text arrived in, as it does when the call succeeds, and the
\* storage is left as it was.
C17_LlmFailureKeepsCourse ==
    [][ \A u \in Users :
          update'.user = u /\ calls'.ai # <<>> =>
              /\ Len(calls'.ai) = 1
              /\ conv'[u] = conv[u]
              /\ user_data_storage' = user_data_storage
              /\ calls'.ai = <<"error">> =>
                    sent' = CASE conv[u] \in {ASK_PASSPORT, ASK_CAR_DOC} ->
                                     <<Plain("Vybacte, qos piwlo ne tak z vidpoviddw")>>
                              [] conv[u] = PRICE_CONFIRM ->
                                     << Plain("Cina, na jal, fiksovana"),
                                        YesNo("Teper vy zgodni na oformlenny za 100 USD?") >>
                              [] conv[u] = PRICE_RECONFIRM ->
                                     <<Plain("Na jal, zaraz ne moju vidpovisty")>>
                              [] OTHER -> <<>>
      ]_vars

\* The language model failed on a question about the price in PRICE_CONFIRM.
C17_Witness ==
    \E u \in Users :
        /\ Handled(u) /\ calls.ai = <<"error">> /\ conv[u] = prev
        /\ calls.handler = "handle_price"

\* C18: every run of issue_policy, out of PRICE_CONFIRM or PRICE_RECONFIRM,
\* sends exactly three messages in this order: the notice that the policy was
\* created, the document, and the offer of another policy with its
\* two-option keyboard.  The document fills the five slots from the session,
\* with "Unknown" for a key the session lacks; the storage is left as it was
\* and the conversation goes to AFTER_POLICY.  Nothing else sends a document.
C18_IssuanceSendsThreeMessages ==
    [][ \A u \in Users :
          LET text == Lower(update'.text)
              issues == /\ update'.kind = "text"
                        /\ \/ conv[u] = PRICE_CONFIRM /\ text = tak
                           \/ conv[u] = PRICE_RECONFIRM
                                /\ Strip(text) \in {tak, zgoden, dobre, ok}
          IN  update'.user = u =>
                  /\ issues =>
                        /\ sent' = << Plain("Strahovyy polis stvoreno. Os vaw dokument:"),
                                      [text |-> "Strahovyy Polis", keyboard |-> "none",
                                       slots |-> [k \in FieldKeys |->
                                                    Get(ExtractedFields(u), k, Unknown)]],
                                      Msg("Bajaete stvoryty qe odyn polis?",
                                          "Dykuw/Stvoryty qe") >>
                        /\ user_data_storage' = user_data_storage
                        /\ conv'[u] = AFTER_POLICY
                  /\ PolicyTexts(sent') # <<>> => issues
      ]_vars

\* A policy issued out of PRICE_RECONFIRM for a session in which every field
\* is "Unknown".
C18_Witness ==
    \E u \in Users :
        /\ Handled(u) /\ prev = PRICE_RECONFIRM /\ conv[u] = AFTER_POLICY
        /\ Len(sent) = 3
        /\ \A k \in FieldKeys : sent[2].slots[k] = Unknown

\* C19: a policy document is sent to a user only after, since the user's
\* conversation last entered ASK_PASSPORT and in this order, a passport
\* photo was accepted in ASK_PASSPORT, a vehicle photo was accepted in
\* ASK_CAR_DOC, "tak" was given in CONFIRM_DATA and an affirmative was given
\* in PRICE_CONFIRM or PRICE_RECONFIRM.
C19_PolicyOnlyAfterFullPath ==
    \A u \in Users :
        Handled(u) /\ PolicyTexts(sent) # <<>> =>
            trail[u] = <<"passport", "vehicle", "tak", "yes">>

\* A policy issued out of PRICE_RECONFIRM, off the shortest path, after the
\* four steps.
C19_Witness ==
    \E u \in Users :
        /\ Handled(u) /\ PolicyTexts(sent) # <<>>
        /\ prev = PRICE_RECONFIRM /\ happy[u] = NoRun
        /\ trail[u] = <<"passport", "vehicle", "tak", "yes">>

\* C20: PRICE_RECONFIRM has no way back: every update handled in
\* PRICE_RECONFIRM leaves the conversation in PRICE_RECONFIRM, issues the
\* policy and goes to AFTER_POLICY, or ends the conversation.
C20_ReconfirmNoWayBack ==
    \A u \in Users :
        Handled(u) /\ prev = PRICE_RECONFIRM =>
            /\ conv[u] \in {PRICE_RECONFIRM, AFTER_POLICY, END}
            /\ conv[u] = AFTER_POLICY <=> PolicyTexts(sent) # <<>>

\* A question in PRICE_RECONFIRM was answered by the language model and the
\* state kept.
C20_Witness ==
    \E u \in Users :
        /\ Handled(u) /\ prev = PRICE_RECONFIRM /\ conv[u] = PRICE_RECONFIRM
        /\ calls.ai = <<"ok">> /\ Len(sent) = 2

====
